---- MODULE Spec2Model ----
(***************************************************************************)
(* A model of the hybrid PDF retrieval engine (search.py) and of the       *)
(* FastAPI handlers that drive it (Project.py).                            *)
(*                                                                         *)
(* Representation of values                                                *)
(*   text     a sequence of tokens: 0 is a run of whitespace, k > 0 is a   *)
(*            word (the number only tells words apart; lower() does not    *)
(*            change which tokens are words, so case is not modelled)      *)
(*   scores   fused scores are integers in units of 10^-6; rounded scores  *)
(*            (round(score, 4)) are integers in units of 10^-4             *)
(* Python indices are 0-based and are kept 0-based wherever the program    *)
(* stores them (doc_map, valid_chunk_indices, bm25_top); sequences of the  *)
(* model are 1-based, so position p of a Python list is element p + 1.     *)
(***************************************************************************)
EXTENDS Integers, Sequences, FiniteSets, TLC

\* An attribute that may be None is a sequence: << >> for None, <<x>> for x.
None == << >>
Some(x) == <<x>>
Val(o) == o[1]

\* ---------------------------------------------------------------- bounds

\* Longest text, in words, handed to chunk_text on its own.
MaxWords == 470
\* Most chunks an index holds before further documents are refused by the
\* environment of the model (the program has no such limit).
MaxChunks == 4
\* Most documents an index holds, likewise: room for two chunks each.
MaxDocs == MaxChunks \div 2
\* Most upload requests issued to the application.
MaxUploads == 2

\* ------------------------------------------------------ program constants

DEFAULT_SIZE == 200
DEFAULT_OVERLAP == 50
BM25_TOP == 100
CANDIDATES == 50
DEFAULT_TOP_K == 5
MAX_PDFS == 10

\* ------------------------------------------------------------ text values

Min(a, b) == IF a < b THEN a ELSE b
Max(a, b) == IF a < b THEN b ELSE a

IsWord(t) == t # 0

\* str.split(): the words of the text, whitespace dropped.
Split(text) == SelectSeq(text, IsWord)

\* " ".join(words): the words with one whitespace token between neighbours.
Join(words) ==
  IF words = << >> THEN << >>
  ELSE [k \in 1..(2 * Len(words) - 1) |->
          IF k % 2 = 1 THEN words[(k + 1) \div 2] ELSE 0]

\* `not text or not text.strip()`: empty, or nothing but whitespace.
IsBlank(text) == \A k \in 1..Len(text) : ~IsWord(text[k])

\* words[i : i + size] for a 0-based i within the list.
Slice(words, i, size) == SubSeq(words, i + 1, Min(i + size, Len(words)))

\* The text of n words 1..n separated by single spaces, as clean_text leaves
\* it; padded, the same text between two runs of whitespace.
Words(n) == Join([k \in 1..n |-> k])
Padded(text) == <<0>> \o text \o <<0>>

\* ------------------------------------------------------------- chunk_text

RECURSIVE chunk_loop(_, _, _, _, _)
chunk_loop(words, size, overlap, i, chunks) ==
  IF i < Len(words)
  THEN chunk_loop(words, size, overlap, i + (size - overlap),
                  Append(chunks, Join(Slice(words, i, size))))
  ELSE chunks

\* chunk_text stopping at the first window that reaches the last word.
RECURSIVE covering_loop(_, _, _, _, _)
covering_loop(words, size, overlap, i, chunks) ==
  IF i < Len(words)
  THEN IF i + size >= Len(words)
       THEN Append(chunks, Join(Slice(words, i, size)))
       ELSE covering_loop(words, size, overlap, i + (size - overlap),
                          Append(chunks, Join(Slice(words, i, size))))
  ELSE chunks

chunk_text_covering(text, size, overlap) ==
  covering_loop(Split(text), size, overlap, 0, << >>)

chunk_text(text, size, overlap) ==
  chunk_loop(Split(text), size, overlap, 0, << >>)

\* ------------------------------------------------------ external libraries

\* BM25Okapi(tokenized): the object keeps one statistics row per tokenized
\* chunk; its scores are drawn by the caller of get_scores (see SearchInputs).
BM25Okapi(tokenized) ==
  [corpus_size |-> Len(tokenized),
   doc_len |-> [k \in 1..Len(tokenized) |-> Len(tokenized[k])]]

\* The embedding of one text. The provider is a function of the text alone;
\* the model keeps of the vector what tells the texts of this model apart:
\* the first word, the last word and the number of words.
Embedding(text) ==
  LET w == Split(text) IN <<w[1], w[Len(w)], Len(w)>>

\* embedder.encode(texts, ...): one row per text, in order.
Encode(texts) == [k \in 1..Len(texts) |-> Embedding(texts[k])]

\* faiss.IndexFlatIP(dim) followed by idx.add(emb).
IndexFlatIP(emb) == [ntotal |-> Len(emb), xb |-> emb]

\* ------------------------------------------------------------------ Index

\* add_document reading `start` after the chunks were appended.
add_document_late_start(self, doc_id, name, text) ==
  IF IsBlank(text) THEN [self |-> self, ret |-> FALSE]
  ELSE
    LET cs == chunk_text(text, DEFAULT_SIZE, DEFAULT_OVERLAP) IN
    IF cs = << >> THEN [self |-> self, ret |-> FALSE]
    ELSE
      LET start == Len(self.chunks \o cs)
          newdocs == Append(self.docs,
                            [id |-> doc_id, name |-> name, text |-> text,
                             chunks |-> cs])
      IN [self |-> [self EXCEPT
                      !.chunks = self.chunks \o cs,
                      !.docs = newdocs,
                      !.doc_map = Append(self.doc_map,
                                         <<Len(newdocs) - 1, start,
                                           start + Len(cs)>>)],
          ret |-> TRUE]

\* Index.add_document: [self |-> the object afterwards, ret |-> the result]
add_document(self, doc_id, name, text) ==
  IF IsBlank(text) THEN [self |-> self, ret |-> FALSE]
  ELSE
    LET cs == chunk_text(text, DEFAULT_SIZE, DEFAULT_OVERLAP) IN
    IF cs = << >> THEN [self |-> self, ret |-> FALSE]
    ELSE
      LET start == Len(self.chunks)
          newdocs == Append(self.docs,
                            [id |-> doc_id, name |-> name, text |-> text,
                             chunks |-> cs])
      IN [self |-> [self EXCEPT
                      !.chunks = self.chunks \o cs,
                      !.docs = newdocs,
                      !.doc_map = Append(self.doc_map,
                                         <<Len(newdocs) - 1, start,
                                           start + Len(cs)>>)],
          ret |-> TRUE]

\* The 0-based positions i of the chunks that pass `c and c.strip()` and
\* tokenize to a non-empty list, in order (the loop of _rebuild).
RECURSIVE valid_loop(_, _, _)
valid_loop(cs, i, valid) ==
  IF i >= Len(cs) THEN valid
  ELSE
    LET c == cs[i + 1] IN
    IF c # << >> /\ ~IsBlank(c) /\ Split(c) # << >>
    THEN valid_loop(cs, i + 1, Append(valid, i))
    ELSE valid_loop(cs, i + 1, valid)

\* The lexical stage of _rebuild (lines 63-77), given the valid positions.
lexical_stage_keeping_valid(self, valid) ==
  LET tokenized == [k \in 1..Len(valid) |-> Split(self.chunks[valid[k] + 1])]
  IN IF tokenized # << >>
     THEN [self EXCEPT !.bm25 = Some(BM25Okapi(tokenized))]
     ELSE [self EXCEPT !.bm25 = None, !.valid_chunk_indices = << >>]

lexical_stage(self, valid) ==
  LET tokenized == [k \in 1..Len(valid) |-> Split(self.chunks[valid[k] + 1])]
  IN IF tokenized # << >>
     THEN [self EXCEPT !.bm25 = Some(BM25Okapi(tokenized)),
                       !.valid_chunk_indices = valid]
     ELSE [self EXCEPT !.bm25 = None, !.valid_chunk_indices = << >>]

\* The embedding stage whose except clause only logs: a failure leaves the
\* vector index and the embeddings as they were.
embedding_stage_keeping_index(self, valid, encode) ==
  IF valid # << >>
  THEN
    IF encode = "fail"
    THEN self
    ELSE
      LET valid_chunks == [k \in 1..Len(valid) |-> self.chunks[valid[k] + 1]]
          emb == Encode(valid_chunks)
      IN IF Len(emb) > 0
         THEN [self EXCEPT !.bert_embeddings = Some(emb),
                           !.index = Some(IndexFlatIP(emb))]
         ELSE [self EXCEPT !.index = None, !.bert_embeddings = None]
  ELSE [self EXCEPT !.index = None, !.bert_embeddings = None]

\* The embedding stage of _rebuild (lines 79-109); encode is what
\* embedder.encode does this time: "ok" (it returns the matrix) or "fail"
\* (it raises, and the except clause of line 101 takes over).
embedding_stage(self, valid, encode) ==
  IF valid # << >>
  THEN
    IF encode = "fail"
    THEN [self EXCEPT !.index = None, !.bert_embeddings = None]
    ELSE
      LET valid_chunks == [k \in 1..Len(valid) |-> self.chunks[valid[k] + 1]]
          emb == Encode(valid_chunks)
      IN IF Len(emb) > 0
         THEN [self EXCEPT !.bert_embeddings = Some(emb),
                           !.index = Some(IndexFlatIP(emb))]
         ELSE [self EXCEPT !.index = None, !.bert_embeddings = None]
  ELSE [self EXCEPT !.index = None, !.bert_embeddings = None]

\* Index._rebuild
rebuild(self, encode) ==
  IF self.chunks = << >>
  THEN [self EXCEPT !.bm25 = None, !.index = None]
  ELSE
    LET valid == valid_loop(self.chunks, 0, << >>)
    IN embedding_stage(lexical_stage(self, valid), valid, encode)

\* The loop of add_documents_batch over documents[k..].
RECURSIVE batch_loop(_, _, _, _)
batch_loop(self, documents, k, added_count) ==
  IF k > Len(documents) THEN [self |-> self, ret |-> added_count]
  ELSE
    LET doc == documents[k]
        r == add_document(self, doc.id, doc.name, doc.text)
    IN batch_loop(r.self, documents, k + 1,
                  IF r.ret THEN added_count + 1 ELSE added_count)

\* Index.add_documents_batch
add_documents_batch(self, documents, encode) ==
  LET r == batch_loop(self, documents, 1, 0) IN
  IF r.ret > 0
  THEN [self |-> rebuild(r.self, encode), ret |-> r.ret]
  ELSE r

\* ------------------------------------------------- Python lists and dicts

\* s[:k], for any integer k.
PyPrefix(s, k) ==
  IF k >= 0 THEN SubSeq(s, 1, Min(k, Len(s)))
  ELSE SubSeq(s, 1, Max(0, Len(s) + k))

\* s[::-1]
Reverse(s) == [k \in 1..Len(s) |-> s[Len(s) + 1 - k]]

\* A dict is the sequence of its <<key, value>> items in insertion order.
DictHas(d, key) == \E k \in 1..Len(d) : d[k][1] = key
DictGet(d, key, default) ==
  IF DictHas(d, key)
  THEN d[CHOOSE k \in 1..Len(d) : d[k][1] = key][2]
  ELSE default
\* d[key] = value: a key already present keeps its place.
DictPut(d, key, value) ==
  IF DictHas(d, key)
  THEN [k \in 1..Len(d) |-> IF d[k][1] = key THEN <<key, value>> ELSE d[k]]
  ELSE Append(d, <<key, value>>)

\* sorted(items, key=lambda x: -x[2]): stable, descending by the second
\* component of each item.
RECURSIVE insert_desc(_, _, _)
insert_desc(sorted, x, k) ==
  IF k > Len(sorted) THEN Append(sorted, x)
  ELSE IF sorted[k][2] < x[2]
       THEN SubSeq(sorted, 1, k - 1) \o <<x>> \o SubSeq(sorted, k, Len(sorted))
       ELSE insert_desc(sorted, x, k + 1)

RECURSIVE sort_desc_from(_, _, _)
sort_desc_from(items, k, sorted) ==
  IF k > Len(items) THEN sorted
  ELSE sort_desc_from(items, k + 1, insert_desc(sorted, items[k], 1))

SortedDesc(items) == sort_desc_from(items, 1, << >>)

\* The elements of a finite set of integers in ascending order (the order
\* CPython iterates a set of small non-negative integers in).
RECURSIVE AscendingList(_)
AscendingList(S) ==
  IF S = {} THEN << >>
  ELSE LET m == CHOOSE x \in S : \A y \in S : x <= y
       IN <<m>> \o AscendingList(S \ {m})

\* ------------------------------------------------------ numpy and faiss

\* np.argsort(scores): every order the default (unstable) sort may return,
\* as sequences of 0-based positions with ascending scores. Equal scores
\* may come out in any order: the sort kind is not a stable one.
RECURSIVE ArgsortsOf(_, _)
ArgsortsOf(scores, left) ==
  IF left = {} THEN {<< >>}
  ELSE
    LET least == {i \in left : \A j \in left : scores[i + 1] <= scores[j + 1]}
    IN UNION {{<<i>> \o rest : rest \in ArgsortsOf(scores, left \ {i})} :
              i \in least}

Argsorts(scores) == ArgsortsOf(scores, 0..(Len(scores) - 1))

\* index.search(q_emb, k): the k rows of greatest inner product with the
\* query, as <<row, similarity>> items (zip(I[0], D[0])), best first.
\* sims[r + 1] is the inner product of row r with the query.
FaissSearch(sims, k) ==
  PyPrefix(SortedDesc([r \in 1..Len(sims) |-> <<r - 1, sims[r]>>]), k)

\* ----------------------------------------------------------- Index.search

\* Score arithmetic in units of 10^-6. The 1e-8 added to the divisor is
\* below this resolution.
LexTerm(score, maxscore) ==
  IF maxscore > 0 THEN (400000 * score) \div maxscore ELSE 0
RankTerm(rank) == 100000 \div (rank + 1)
VecTerm(sim) == (6 * Max(0, sim)) \div 10
\* round(score, 4), in units of 10^-4
Round4(score) == (score + 50) \div 100

SeqMax(s) == CHOOSE x \in {s[k] : k \in 1..Len(s)} :
               \A k \in 1..Len(s) : s[k] <= x

\* for dist, idx in zip(D[0], I[0]): ... (lines 136-140)
RECURSIVE bert_loop(_, _, _, _)
bert_loop(self, hits, k, acc) ==
  IF k > Len(hits) THEN acc
  ELSE
    LET idx == hits[k][1]
        dist == hits[k][2]
    IN IF idx < Len(self.valid_chunk_indices)
       THEN LET chunk_idx == self.valid_chunk_indices[idx + 1] IN
            bert_loop(self, hits, k + 1,
                      [bert_candidates |-> Append(acc.bert_candidates, chunk_idx),
                       bert_similarities |->
                         DictPut(acc.bert_similarities, chunk_idx, dist)])
       ELSE bert_loop(self, hits, k + 1, acc)

\* candidate_chunks (lines 142-147)
CandidateChunks(self, bm25_top, bert_candidates) ==
  LET top == PyPrefix(bm25_top, CANDIDATES)
      bert == PyPrefix(bert_candidates, CANDIDATES)
  IN {self.valid_chunk_indices[top[k] + 1] :
        k \in {j \in 1..Len(top) : top[j] < Len(self.valid_chunk_indices)}}
     \cup {bert[k] : k \in 1..Len(bert)}

\* chunk_to_emb_idx[chunk_idx]; valid_chunk_indices holds no value twice.
EmbIdx(self, chunk_idx) ==
  (CHOOSE k \in 1..Len(self.valid_chunk_indices) :
     self.valid_chunk_indices[k] = chunk_idx) - 1

\* The explicit similarities (lines 149-167): every candidate with a stored
\* embedding gets np.dot(embedding, q_emb), kept when new or greater.
RECURSIVE explicit_loop(_, _, _, _, _)
explicit_loop(self, sims, candidate_list, k, bert_similarities) ==
  IF k > Len(candidate_list) THEN bert_similarities
  ELSE
    LET chunk_idx == candidate_list[k]
        known == \E j \in 1..Len(self.valid_chunk_indices) :
                   self.valid_chunk_indices[j] = chunk_idx
    IN IF known /\ EmbIdx(self, chunk_idx) < Len(Val(self.bert_embeddings))
       THEN LET sim_score == sims[EmbIdx(self, chunk_idx) + 1] IN
            explicit_loop(self, sims, candidate_list, k + 1,
              IF ~DictHas(bert_similarities, chunk_idx)
                 \/ sim_score > DictGet(bert_similarities, chunk_idx, 0)
              THEN DictPut(bert_similarities, chunk_idx, sim_score)
              ELSE bert_similarities)
       ELSE explicit_loop(self, sims, candidate_list, k + 1, bert_similarities)

\* for rank, bm25_idx in enumerate(bm25_top): ... (lines 171-175)
RECURSIVE lexical_loop(_, _, _, _, _)
lexical_loop(self, bm25_scores, bm25_top, k, fused) ==
  IF k > Len(bm25_top) THEN fused
  ELSE
    LET rank == k - 1
        bm25_idx == bm25_top[k]
    IN IF bm25_idx < Len(self.valid_chunk_indices)
       THEN LET chunk_idx == self.valid_chunk_indices[bm25_idx + 1] IN
            lexical_loop(self, bm25_scores, bm25_top, k + 1,
              DictPut(fused, chunk_idx,
                      DictGet(fused, chunk_idx, 0)
                      + LexTerm(bm25_scores[bm25_idx + 1], SeqMax(bm25_scores))
                      + RankTerm(rank)))
       ELSE lexical_loop(self, bm25_scores, bm25_top, k + 1, fused)

\* for chunk_idx, bert_score in bert_similarities.items(): ... (lines 177-178)
RECURSIVE vector_loop(_, _, _)
vector_loop(bert_similarities, k, fused) ==
  IF k > Len(bert_similarities) THEN fused
  ELSE vector_loop(bert_similarities, k + 1,
         DictPut(fused, bert_similarities[k][1],
                 DictGet(fused, bert_similarities[k][1], 0)
                 + VecTerm(bert_similarities[k][2])))

\* The owner of a chunk by a forward scan of doc_map (lines 190-194);
\* None when no range holds the chunk.
RECURSIVE owner_scan(_, _, _)
owner_scan(self, chunk_idx, k) ==
  IF k > Len(self.doc_map) THEN None
  ELSE IF self.doc_map[k][2] <= chunk_idx /\ chunk_idx < self.doc_map[k][3]
       THEN Some(self.docs[self.doc_map[k][1] + 1])
       ELSE owner_scan(self, chunk_idx, k + 1)

\* for chunk_idx, score in ranked: ... (lines 185-200). The snippet, a prefix
\* of chunks[chunk_idx], is kept as the position of its chunk.
RECURSIVE results_loop(_, _, _, _)
results_loop(self, ranked, k, results) ==
  IF k > Len(ranked) THEN results
  ELSE
    LET chunk_idx == ranked[k][1]
        score == ranked[k][2]
    IN IF chunk_idx >= Len(self.chunks)
       THEN results_loop(self, ranked, k + 1, results)
       ELSE LET doc == owner_scan(self, chunk_idx, 1) IN
            IF doc # None
            THEN results_loop(self, ranked, k + 1,
                   Append(results, [filename |-> Val(doc).name,
                                    score |-> Round4(score),
                                    snippet |-> chunk_idx]))
            ELSE results_loop(self, ranked, k + 1, results)

\* filename_to_best_result overwritten by every result of the filename.
RECURSIVE dedup_last(_, _, _)
dedup_last(results, k, best) ==
  IF k > Len(results) THEN best
  ELSE dedup_last(results, k + 1, DictPut(best, results[k].filename, results[k]))

\* filename_to_best_result (lines 202-209)
RECURSIVE dedup_loop(_, _, _)
dedup_loop(results, k, best) ==
  IF k > Len(results) THEN best
  ELSE
    LET result == results[k]
        filename == result.filename
    IN IF ~DictHas(best, filename)
       THEN dedup_loop(results, k + 1, DictPut(best, filename, result))
       ELSE IF result.score > DictGet(best, filename, result).score
            THEN dedup_loop(results, k + 1, DictPut(best, filename, result))
            ELSE dedup_loop(results, k + 1, best)

\* deduplicated_results after its sort (lines 211-212)
Deduplicated(results) ==
  LET best == dedup_loop(results, 1, << >>)
      keyed == [k \in 1..Len(best) |-> <<best[k][2], best[k][2].score>>]
      sorted == SortedDesc(keyed)
  IN [k \in 1..Len(sorted) |-> sorted[k][1]]

\* bm25_top (line 127): the argsort reversed, cut to its first 100.
Bm25TopAscending(argsort, bm25_scores) ==
  PyPrefix(argsort, Min(BM25_TOP, Len(bm25_scores)))
Bm25Top(argsort, bm25_scores) ==
  PyPrefix(Reverse(argsort), Min(BM25_TOP, Len(bm25_scores)))

\* deduplicated_results[:top_k] (line 213)
FinalCutNone(deduplicated_results, top_k) == deduplicated_results
FinalCut(deduplicated_results, top_k) == PyPrefix(deduplicated_results, top_k)

NoLocals == [bm25_top |-> << >>, fused |-> << >>, ranked |-> << >>]

\* The body of the try block (lines 122-213). ext is what the libraries do
\* in this call: bm25_scores (get_scores), argsort (np.argsort of them),
\* encode ("ok" or "fail": embedder.encode raises), sims (the inner product
\* of each stored row with the query). The result is [raised |-> TRUE] or
\* the returned list with the locals the properties speak of.
search_try(self, query, top_k, ext) ==
  LET q_tokens == Split(query) IN
  IF q_tokens = << >>
  THEN [raised |-> FALSE, ret |-> << >>, locals |-> NoLocals]
  ELSE
    LET bm25_scores == ext.bm25_scores
        bm25_top == Bm25Top(ext.argsort, bm25_scores)
    IN
    IF ext.encode = "fail"
    THEN [raised |-> TRUE]
    ELSE
      LET ntotal == Val(self.index).ntotal
          search_k == IF ntotal > 0 THEN Min(top_k * 5, ntotal) ELSE 0
          hits == IF search_k > 0 THEN FaissSearch(ext.sims, search_k)
                  ELSE << >>
          bert == bert_loop(self, hits, 1,
                            [bert_candidates |-> << >>,
                             bert_similarities |-> << >>])
          candidate_chunks ==
            CandidateChunks(self, bm25_top, bert.bert_candidates)
          bert_similarities ==
            IF candidate_chunks # {} /\ self.bert_embeddings # None
            THEN explicit_loop(self, ext.sims, AscendingList(candidate_chunks),
                               1, bert.bert_similarities)
            ELSE bert.bert_similarities
          fused == vector_loop(bert_similarities, 1,
                     lexical_loop(self, bm25_scores, bm25_top, 1, << >>))
      IN
      IF fused = << >>
      THEN [raised |-> FALSE, ret |-> << >>,
            locals |-> [bm25_top |-> bm25_top, fused |-> fused,
                        ranked |-> << >>]]
      ELSE
        LET ranked == PyPrefix(SortedDesc(fused), top_k * 3)
            results == results_loop(self, ranked, 1, << >>)
        IN [raised |-> FALSE,
            ret |-> FinalCut(Deduplicated(results), top_k),
            locals |-> [bm25_top |-> bm25_top, fused |-> fused,
                        ranked |-> ranked]]

\* The try block without its except clause: the exception reaches the caller.
search_unguarded(self, query, top_k, ext) ==
  LET r == search_try(self, query, top_k, ext) IN
  IF r.raised
  THEN [raised |-> TRUE, ret |-> << >>, locals |-> NoLocals]
  ELSE r

\* try: ... except Exception: return [] (lines 121, 214-218)
search_guarded(self, query, top_k, ext) ==
  LET r == search_try(self, query, top_k, ext) IN
  IF r.raised
  THEN [raised |-> FALSE, ret |-> << >>, locals |-> NoLocals]
  ELSE r

\* Whether search gets as far as the libraries (lines 112-119).
SearchReady(self, query) ==
  /\ ~IsBlank(query)
  /\ self.chunks # << >>
  /\ self.bm25 # None
  /\ self.index # None

\* Index.search
search(self, query, top_k, ext) ==
  IF ~SearchReady(self, query)
  THEN [raised |-> FALSE, ret |-> << >>, locals |-> NoLocals]
  ELSE search_guarded(self, query, top_k, ext)

\* ------------------------------------------------------------------ state

VARIABLES
  docs,                 \* Index.docs: [id, name, text, chunks] records
  chunks,               \* Index.chunks: every chunk of every document
  doc_map,              \* Index.doc_map: <<document index, start, end>>
  bm25,                 \* Index.bm25: None or the BM25Okapi object
  index,                \* Index.index: None or the faiss index
  valid_chunk_indices,  \* Index.valid_chunk_indices
  bert_embeddings,      \* Index.bert_embeddings: None or the matrix
  call,                 \* the last call made by the caller, with its result
  requests,             \* Project.py: the upload requests, in order of arrival
  indexing_progress     \* Project.py: the global of that name

ivars == <<docs, chunks, doc_map, bm25, index, valid_chunk_indices,
           bert_embeddings>>
avars == <<requests, indexing_progress>>
vars == <<docs, chunks, doc_map, bm25, index, valid_chunk_indices,
          bert_embeddings, call, requests, indexing_progress>>

\* Index.__init__
IndexInit ==
  /\ docs = << >>
  /\ chunks = << >>
  /\ doc_map = << >>
  /\ bm25 = None
  /\ index = None
  /\ valid_chunk_indices = << >>
  /\ bert_embeddings = None

\* indexing_progress as lines 24-30 and 120-126 set it; the message, a
\* rendering of the other fields, is left out.
Progress(status, current, total, current_file) ==
  [status |-> status, current |-> current, total |-> total,
   current_file |-> current_file]
Idle == Progress("idle", 0, 0, "")

\* The module after import: index = Index(), no request yet.
Init ==
  /\ IndexInit
  /\ call = [op |-> "init"]
  /\ requests = << >>
  /\ indexing_progress = Idle


\* ------------------------------------------------- the Index as an object

Self ==
  [docs |-> docs, chunks |-> chunks, doc_map |-> doc_map, bm25 |-> bm25,
   index |-> index, valid_chunk_indices |-> valid_chunk_indices,
   bert_embeddings |-> bert_embeddings]

Becomes(self) ==
  /\ docs' = self.docs
  /\ chunks' = self.chunks
  /\ doc_map' = self.doc_map
  /\ bm25' = self.bm25
  /\ index' = self.index
  /\ valid_chunk_indices' = self.valid_chunk_indices
  /\ bert_embeddings' = self.bert_embeddings

\* ------------------------------------------------------- the caller's inputs

Names == {"report.pdf", "notes.pdf"}

\* Nine words make one chunk, 151 words make two, 301 words make three.
OneChunk == Words(9)
TwoChunks == Words(151)
ThreeChunks == Words(301)
\* Empty, whitespace only, and the three above.
Texts == {<< >>, <<0>>, OneChunk, TwoChunks, ThreeChunks}

Queries == {<< >>, <<0>>, <<1>>}

Doc(name, text) == [name |-> name, text |-> text]

\* The batches handed to add_documents_batch: none, rejected ones only, one
\* valid document, a valid one beside a rejected one, two valid ones of one
\* name and of two names.
Batches ==
  {<< >>, <<Doc("report.pdf", <<0>>)>>,
   <<Doc("notes.pdf", << >>), Doc("report.pdf", <<0>>)>>}
  \cup {<<Doc(n, t)>> : n \in Names, t \in {OneChunk, TwoChunks}}
  \cup {<<Doc("notes.pdf", ThreeChunks)>>}
  \cup {<<Doc("notes.pdf", <<0>>), Doc("report.pdf", OneChunk)>>,
        <<Doc("report.pdf", TwoChunks), Doc("notes.pdf", << >>)>>,
        <<Doc("report.pdf", OneChunk), Doc("report.pdf", TwoChunks)>>,
        <<Doc("report.pdf", OneChunk), Doc("notes.pdf", OneChunk)>>}

\* The documents of a batch that hold a word.
NumValid(batch) ==
  Cardinality({k \in 1..Len(batch) :
                 \E j \in 1..Len(batch[k].text) : batch[k].text[j] # 0})

\* The ids of a call are fresh, as uuid4 draws them: the k-th document of a
\* call gets the k-th id that no stored document has.
FreshId(self, k) == Len(self.docs) + k

WithIds(self, batch) ==
  [k \in 1..Len(batch) |->
     [id |-> FreshId(self, k), name |-> batch[k].name, text |-> batch[k].text]]

\* The environment stops adding at MaxDocs documents or MaxChunks chunks.
Fits(self) == Len(self.docs) <= MaxDocs /\ Len(self.chunks) <= MaxChunks

\* --------------------------------------------------------- calls of Index

AddDocument ==
  \E name \in Names, text \in Texts :
    LET r == add_document(Self, FreshId(Self, 1), name, text) IN
    /\ Fits(r.self)
    /\ Becomes(r.self)
    /\ call' = [op |-> "add_document", blank |-> IsBlank(text), ret |-> r.ret]
    /\ UNCHANGED avars

AddDocumentsBatch ==
  \E batch \in Batches, encode \in {"ok", "fail"} :
    LET r == add_documents_batch(Self, WithIds(Self, batch), encode) IN
    /\ Fits(r.self)
    /\ Becomes(r.self)
    /\ call' = [op |-> "add_documents_batch", n |-> Len(batch),
                valid |-> NumValid(batch), encode |-> encode, ret |-> r.ret]
    /\ UNCHANGED avars

\* What the libraries answer to one search of an index that is ready:
\* scores for the rows of the lexical index, one of their argsorts, the
\* outcome of embedding the query and, when that succeeds, an inner product
\* per row of the vector index. An index that is not ready asks nothing.
NoExt == [bm25_scores |-> << >>, argsort |-> << >>, encode |-> "ok",
          sims |-> << >>]

\* The answers drawn for the searches of a running application: one score
\* vector without ties, one inner product for every row.
RisingScores(n) == {[k \in 1..n |-> k]}
FlatSims(n) == {[k \in 1..n |-> 500000]}

\* The answers drawn for a search examined on its own. Lexical scores 0 and 3
\* in every arrangement, so that equal scores and a maximum of 0 both occur.
TiedScores(n) == [1..n -> {0, 3}]

\* Inner products: all negative; best for the first row; best for the last.
SimProfiles(n) ==
  {[k \in 1..n |-> -200000],
   [k \in 1..n |-> IF k = 1 THEN 900000 ELSE 100000],
   [k \in 1..n |-> IF k = n THEN 900000 ELSE 100000]}

Scores(wide, n) == IF wide THEN TiedScores(n) ELSE RisingScores(n)
Sims(wide, n) == IF wide THEN SimProfiles(n) ELSE FlatSims(n)

ExtChoices(self, query, wide) ==
  IF ~SearchReady(self, query) THEN {NoExt}
  ELSE
    LET n == Val(self.bm25).corpus_size
        first == CHOOSE sc \in Scores(wide, n) : TRUE
    IN
    UNION {{[bm25_scores |-> sc, argsort |-> p, encode |-> "ok", sims |-> sm] :
              p \in Argsorts(sc), sm \in Sims(wide, Val(self.index).ntotal)} :
           sc \in Scores(wide, n)}
    \cup {[bm25_scores |-> first,
           argsort |-> CHOOSE p \in Argsorts(first) : TRUE,
           encode |-> "fail", sims |-> << >>]}

SearchCall(top_ks, wide) ==
  \E query \in Queries, top_k \in top_ks :
    \E ext \in ExtChoices(Self, query, wide) :
      /\ LET r == search(Self, query, top_k, ext) IN
         call' = [op |-> "search", query |-> query, top_k |-> top_k,
                  ext |-> ext, raised |-> r.raised, ret |-> r.ret,
                  locals |-> r.locals]
      /\ UNCHANGED ivars
      /\ UNCHANGED avars

\* The searches of the application: top_k = 5, as the endpoint passes it.
Search == SearchCall({DEFAULT_TOP_K}, FALSE)

Next == AddDocument \/ AddDocumentsBatch \/ Search

Spec == Init /\ [][Next]_vars

\* ------------------------------------ one search over each index that fits

TopKs == {-1, 0, 1, 2}

\* The index is built one valid document at a time, each by a batch of its
\* own whose rebuild succeeds. No name is special to the program: the first
\* document is report.pdf, the later ones take either name.
BuildIndex ==
  \E name \in IF docs = << >> THEN {"report.pdf"} ELSE Names,
     text \in {OneChunk, TwoChunks, ThreeChunks} :
    LET r == add_documents_batch(Self, WithIds(Self, <<Doc(name, text)>>), "ok")
    IN /\ Fits(r.self)
       /\ Becomes(r.self)
       /\ call' = [op |-> "add_documents_batch", n |-> 1, valid |-> 1,
                   encode |-> "ok", ret |-> r.ret]
       /\ UNCHANGED avars

SearchAny == SearchCall(TopKs, TRUE)

\* The search ends the run: its result is a function of the index it met.
NextSearch ==
  \/ call.op # "search" /\ BuildIndex
  \/ call.op # "search" /\ SearchAny

SpecSearch == Init /\ [][NextSearch]_vars

\* ------------------------------------------- chunk_text called on its own

ChunkInputs ==
  {Words(n) : n \in 0..MaxWords} \cup {Padded(Words(n)) : n \in {0, 1, 151}}

ChunkText ==
  /\ \E text \in ChunkInputs :
       call' = [op |-> "chunk_text", text |-> text,
                ret |-> chunk_text(text, DEFAULT_SIZE, DEFAULT_OVERLAP)]
  /\ UNCHANGED ivars
  /\ UNCHANGED avars

NextChunk == call.op = "init" /\ ChunkText

SpecChunk == Init /\ [][NextChunk]_vars



\* ============================================================== Project.py

\* clean_text: runs of whitespace become one space, the ends are stripped.
clean_text(text) == Join(Split(text))

\* A file of an upload: its name, whether the name ends in .pdf, whether
\* fitz can open it, and the text of its pages.
File(filename, pdf, opens, raw) ==
  [filename |-> filename, pdf |-> pdf, opens |-> opens, raw |-> raw]

\* extract_text: [raised |-> TRUE] when fitz cannot open the bytes.
extract_text(file) ==
  IF file.opens
  THEN [raised |-> FALSE, text |-> clean_text(file.raw)]
  ELSE [raised |-> TRUE]

GoodPdf == File("report.pdf", TRUE, TRUE, <<0, 1, 0, 0, 2, 0>>)
ScanPdf == File("scan.pdf", TRUE, TRUE, <<0, 0>>)
BadPdf == File("broken.pdf", TRUE, FALSE, << >>)
Notes == File("notes.txt", FALSE, TRUE, <<1>>)

\* The uploads: one PDF; a text file beside a PDF without text; a PDF that
\* cannot be opened; a text file alone; and more than half of MAX_PDFS PDFs,
\* so that two such uploads together pass the limit.
ManyPdfs == [k \in 1..(MAX_PDFS \div 2 + 1) |-> GoodPdf]
Uploads ==
  {<<GoodPdf>>, <<Notes, ScanPdf>>, <<BadPdf>>, <<Notes>>, ManyPdfs}

IsPdf(file) == file.pdf

\* The rest of upload once its reads are done (lines 136-163): the request
\* is refused with status 400, or its background task is added.
upload_check(current_doc_count, file_data) ==
  IF current_doc_count + Len(file_data) > MAX_PDFS
  THEN "refused"
  ELSE "scheduled"

\* upload, up to its first `await f.read()` (lines 119-133). The reads of
\* one request change nothing but its own file_data, so the request yields
\* to the event loop once, in "reading"; without a PDF it never yields.
Upload ==
  /\ Len(requests) < MaxUploads
  /\ \E files \in Uploads :
       LET file_data == SelectSeq(files, IsPdf)
           current_doc_count == Len(docs)
       IN requests' = Append(requests,
            [file_data |-> file_data,
             current_doc_count |-> current_doc_count,
             pc |-> IF file_data = << >>
                    THEN upload_check(current_doc_count, file_data)
                    ELSE "reading",
             i |-> 0,
             documents_to_add |-> << >>])
  /\ indexing_progress' = Idle
  /\ UNCHANGED <<ivars, call>>

\* upload, resumed after its reads (lines 136-163).
UploadResume(r) ==
  /\ requests[r].pc = "reading"
  /\ requests' = [requests EXCEPT ![r].pc =
                    upload_check(requests[r].current_doc_count,
                                 requests[r].file_data)]
  /\ UNCHANGED <<ivars, call, indexing_progress>>

\* One turn of the loop of process_pdfs_background (lines 82-94) for file
\* i of request r, from the progress record it finds: the task goes to
\* sleep, or extract_text raises and the except clause ends the task.
loop_turn(req, progress) ==
  LET file_info == req.file_data[req.i + 1]
      total == Len(req.file_data)
      shown == [progress EXCEPT !.current = req.i,
                                !.current_file = file_info.filename]
      text == extract_text(file_info)
  IN IF text.raised
     THEN [req |-> [req EXCEPT !.pc = "finished"],
           progress |-> Progress("error", shown.current, total,
                                 shown.current_file)]
     ELSE [req |-> [req EXCEPT
                      !.pc = "sleeping",
                      !.i = req.i + 1,
                      !.documents_to_add =
                        Append(req.documents_to_add,
                               Doc(file_info.filename, text.text))],
           progress |-> shown]

\* process_pdfs_background from its start to its first await (lines 57-94).
TaskStart(r) ==
  /\ requests[r].pc = "scheduled"
  /\ LET total == Len(requests[r].file_data) IN
     IF total = 0
     THEN /\ indexing_progress' = Progress("error", 0, 0, "")
          /\ requests' = [requests EXCEPT ![r].pc = "finished"]
     ELSE LET t == loop_turn(requests[r], Progress("processing", 0, total, ""))
          IN /\ indexing_progress' = t.progress
             /\ requests' = [requests EXCEPT ![r] = t.req]
  /\ UNCHANGED <<ivars, call>>

\* The task resumed from asyncio.sleep with a file left (lines 82-94).
TaskTurn(r) ==
  /\ requests[r].pc = "sleeping"
  /\ requests[r].i < Len(requests[r].file_data)
  /\ LET t == loop_turn(requests[r], indexing_progress)
     IN /\ indexing_progress' = t.progress
        /\ requests' = [requests EXCEPT ![r] = t.req]
  /\ UNCHANGED <<ivars, call>>

\* The task resumed with only documents added and the rebuild left for a
\* later turn of the event loop.
TaskIndexDeferred(r) ==
  /\ requests[r].pc = "sleeping"
  /\ requests[r].i = Len(requests[r].file_data)
  /\ LET total == Len(requests[r].file_data)
         b == batch_loop(Self, WithIds(Self, requests[r].documents_to_add), 1, 0)
     IN /\ Becomes(b.self)
        /\ indexing_progress' = Progress("complete", total, total, "")
  /\ requests' = [requests EXCEPT ![r].pc = "finished"]
  /\ UNCHANGED call

\* The task resumed from its last sleep (lines 96-107): add_documents_batch
\* runs to its end, rebuild included, without an await.
TaskIndex(r) ==
  /\ requests[r].pc = "sleeping"
  /\ requests[r].i = Len(requests[r].file_data)
  /\ \E encode \in {"ok", "fail"} :
       LET total == Len(requests[r].file_data)
           b == add_documents_batch(
                  Self, WithIds(Self, requests[r].documents_to_add), encode)
       IN /\ Becomes(b.self)
          /\ indexing_progress' = Progress("complete", total, total, "")
  /\ requests' = [requests EXCEPT ![r].pc = "finished"]
  /\ UNCHANGED call

\* str.strip()
RECURSIVE Strip(_)
Strip(text) ==
  IF text = << >> THEN text
  ELSE IF ~IsWord(Head(text)) THEN Strip(Tail(text))
  ELSE IF ~IsWord(text[Len(text)]) THEN Strip(SubSeq(text, 1, Len(text) - 1))
  ELSE text

\* What a request reading the index now would meet: the sizes of the store
\* and of each derived structure (-1 for None).
Snapshot ==
  [docs |-> Len(docs), chunks |-> Len(chunks),
   lexical |-> IF bm25 = None THEN -1 ELSE Val(bm25).corpus_size,
   valid |-> Len(valid_chunk_indices),
   vectors |-> IF index = None THEN -1 ELSE Val(index).ntotal,
   embeddings |-> IF bert_embeddings = None THEN -1
                  ELSE Len(Val(bert_embeddings))]

\* Whether a background task is between two of its awaits.
TaskInFlight == \E r \in 1..Len(requests) : requests[r].pc = "sleeping"

\* The /search endpoint (lines 172-181): no await, one turn of the loop.
SearchRequest ==
  /\ \E q \in {<<0>>, <<0, 1, 0>>} :
       IF IsBlank(q)
       THEN call' = [op |-> "search", q |-> q, ret |-> << >>, raised |-> FALSE,
                     error |-> "Empty query", seen |-> Snapshot,
                     during |-> TaskInFlight]
       ELSE \E ext \in ExtChoices(Self, Strip(q), FALSE) :
              LET r == search(Self, Strip(q), DEFAULT_TOP_K, ext) IN
              call' = [op |-> "search", q |-> q, ret |-> r.ret,
                       raised |-> r.raised, error |-> "", seen |-> Snapshot,
                       during |-> TaskInFlight]
  /\ UNCHANGED <<ivars, avars>>

NextApp ==
  \/ Upload
  \/ \E r \in 1..Len(requests) : UploadResume(r)
  \/ \E r \in 1..Len(requests) : TaskStart(r)
  \/ \E r \in 1..Len(requests) : TaskTurn(r)
  \/ \E r \in 1..Len(requests) : TaskIndex(r)
  \/ SearchRequest

SpecApp == Init /\ [][NextApp]_vars

\* ================================================================ properties

NumWords(text) == Cardinality({k \in 1..Len(text) : text[k] # 0})
CeilDiv(a, b) == (a + b - 1) \div b
Range0(n) == [k \in 1..n |-> k - 1]

\* ------------------------------------------------------------------- C1

\* C1 as stated: a text of N words gives ceil(max(0, N - 200) / 150) + 1
\* chunks when N > 0, and none when N = 0.
C1_CountAsStated ==
  call.op = "chunk_text" =>
    LET N == NumWords(call.text) IN
    Len(call.ret) = IF N = 0 THEN 0 ELSE CeilDiv(Max(0, N - 200), 150) + 1

\* C1 as amended: a text of N words gives ceil(N / 150) chunks, one per
\* window start 0, 150, 300, ... below N; that is none when N = 0.
C1_ChunkCount ==
  call.op = "chunk_text" =>
    Len(call.ret) = CeilDiv(NumWords(call.text), 150)

\* chunk_text met a text of 151 words and returned two chunks, the second
\* holding the last word alone.
C1_Witness ==
  /\ call.op = "chunk_text"
  /\ NumWords(call.text) = 151
  /\ Len(call.ret) = 2
  /\ call.ret[2] = <<151>>

\* ------------------------------------------------------------------- C2

\* What one call accepted, read from its result.
Accepted(c) ==
  IF c.op = "add_document" THEN (IF c.ret THEN 1 ELSE 0)
  ELSE IF c.op = "add_documents_batch" THEN c.ret
  ELSE 0

DocMapShape ==
  /\ Len(doc_map) = Len(docs)
  /\ \A k \in 1..Len(doc_map) :
       /\ doc_map[k][1] = k - 1
       /\ doc_map[k][2] < doc_map[k][3]
       /\ doc_map[k][2] = IF k = 1 THEN 0 ELSE doc_map[k - 1][3]
       /\ doc_map[k][3] <= Len(chunks)
       /\ SubSeq(chunks, doc_map[k][2] + 1, doc_map[k][3]) = docs[k].chunks
  /\ Len(chunks) = IF doc_map = << >> THEN 0 ELSE doc_map[Len(doc_map)][3]

DocMapStep ==
  /\ Len(docs') = Len(docs) + Accepted(call')
  /\ SubSeq(docs', 1, Len(docs)) = docs
  /\ SubSeq(doc_map', 1, Len(doc_map)) = doc_map
  /\ Accepted(call') = 0 => UNCHANGED <<docs, chunks, doc_map>>

\* C2: after any calls of add_document and add_documents_batch, doc_map holds
\* one triple per accepted document, in insertion order, with start < end,
\* the first start 0, every start the end before it and the last end
\* len(chunks); every call adds as many documents as it accepted, and one
\* that accepted none leaves docs, chunks and doc_map as they were.
C2_DocMap == []DocMapShape /\ [][DocMapStep]_vars

\* A batch with a rejected and an accepted document was added to an index
\* that held a document already.
C2_Witness ==
  /\ call.op = "add_documents_batch"
  /\ 0 < call.ret /\ call.ret < call.n
  /\ Len(doc_map) >= 2
  /\ doc_map[2][2] = doc_map[1][3]

\* ------------------------------------------------------------------- C3

\* C3: whenever the vector index stands (the embedding stage of the last
\* rebuild succeeded), valid_chunk_indices, the lexical index, the vector
\* index and bert_embeddings have the same number of rows, and row i of each
\* is built from chunk valid_chunk_indices[i]; right after a batch that
\* added a document and embedded, these rows are all the chunks.
C3_Alignment ==
  /\ index # None =>
       LET n == Len(valid_chunk_indices) IN
       /\ bm25 # None /\ bert_embeddings # None
       /\ Val(bm25).corpus_size = n
       /\ Len(Val(bm25).doc_len) = n
       /\ Val(index).ntotal = n
       /\ Len(Val(index).xb) = n
       /\ Len(Val(bert_embeddings)) = n
       /\ \A i \in 1..n :
            /\ valid_chunk_indices[i] < Len(chunks)
            /\ LET c == chunks[valid_chunk_indices[i] + 1] IN
               /\ Val(bm25).doc_len[i] = NumWords(c)
               /\ Val(index).xb[i] = Embedding(c)
               /\ Val(bert_embeddings)[i] = Embedding(c)
  /\ (call.op = "add_documents_batch" /\ call.ret > 0 /\ call.encode = "ok") =>
       /\ index # None
       /\ valid_chunk_indices = Range0(Len(chunks))

\* A second batch was embedded over the chunks of both batches.
C3_Witness ==
  /\ call.op = "add_documents_batch" /\ call.ret = 1 /\ call.encode = "ok"
  /\ Len(docs) = 2
  /\ index # None
  /\ Val(index).ntotal = Len(chunks)
  /\ Len(chunks) >= 3

\* ------------------------------------------------------------------- C6

Degraded == index = None /\ bm25 # None

DegradedAfterFailure ==
  (call.op = "add_documents_batch" /\ call.ret > 0 /\ call.encode = "fail") =>
    /\ call.ret = call.valid
    /\ index = None /\ bert_embeddings = None
    /\ bm25 # None
    /\ Val(bm25).corpus_size = Len(chunks)
    /\ valid_chunk_indices = Range0(Len(chunks))

EmptyWhileDegraded ==
  (call.op = "search" /\ index = None) => call.ret = << >> /\ ~call.raised

RecoveryStep ==
  (index = None /\ index' # None) =>
    /\ call'.op = "add_documents_batch"
    /\ call'.ret > 0 /\ call'.encode = "ok"
    /\ Val(index').ntotal = Len(chunks')
    /\ Val(bm25').corpus_size = Len(chunks')
    /\ valid_chunk_indices' = Range0(Len(chunks'))

\* C6: a batch whose rebuild cannot embed still returns its count of added
\* documents and leaves the vector index and the embeddings None with the
\* lexical index and valid_chunk_indices built; every search returns [] while
\* the vector index is None; and the vector index comes back only by a batch
\* that adds a document and embeds, then covering every chunk.
C6_Degraded ==
  /\ [](DegradedAfterFailure /\ EmptyWhileDegraded)
  /\ [][RecoveryStep]_vars

\* A search with a query of one word met the index of a failed rebuild.
C6_Witness ==
  /\ call.op = "search"
  /\ ~IsBlank(call.query)
  /\ Degraded
  /\ Len(docs) >= 1
  /\ call.ret = << >>

\* ------------------------------------------------------------------- C7

\* C7: no search raises; one whose query cannot be embedded returns []; and
\* a search leaves every attribute of the index as it was.
C7_NeverRaises ==
  /\ [](call.op = "search" =>
          /\ ~call.raised
          /\ call.ext.encode = "fail" => call.ret = << >>)
  /\ [][call'.op = "search" /\ call' # call => UNCHANGED ivars]_vars

\* A search of a ready index whose query the provider failed to embed.
C7_Witness ==
  /\ call.op = "search"
  /\ SearchReady(Self, call.query)
  /\ call.ext.encode = "fail"
  /\ call.ret = << >>

\* ------------------------------------------------------------------- C4

OwnerOf(chunk_idx) ==
  docs[(CHOOSE k \in 1..Len(doc_map) :
          doc_map[k][2] <= chunk_idx /\ chunk_idx < doc_map[k][3])]

\* C4: the list search returns holds at most one entry per filename, and the
\* score of each entry is the greatest rounded fused score among the chunks
\* of that filename within the top 3 * top_k fused candidates.
C4_Dedup ==
  call.op = "search" =>
    LET ret == call.ret
        ranked == call.locals.ranked
        fused == call.locals.fused
        Mine(f) == {k \in 1..Len(ranked) : OwnerOf(ranked[k][1]).name = f}
    IN
    /\ \A i, j \in 1..Len(ret) : i # j => ret[i].filename # ret[j].filename
    /\ \A i \in 1..Len(ret) :
         /\ \E k \in Mine(ret[i].filename) : ret[i].score = Round4(ranked[k][2])
         /\ \A k \in Mine(ret[i].filename) : Round4(ranked[k][2]) <= ret[i].score
    /\ call.top_k >= 0 =>
         /\ Len(ranked) = Min(Len(fused), 3 * call.top_k)
         /\ \A k \in 1..Len(ranked) : \E j \in 1..Len(fused) : fused[j] = ranked[k]
         /\ \A j \in 1..Len(fused) :
              (\A k \in 1..Len(ranked) : ranked[k] # fused[j]) =>
                \A k \in 1..Len(ranked) : fused[j][2] <= ranked[k][2]

\* Two documents of one name and different ids both have a chunk among the
\* ranked candidates, with different rounded scores, some candidate was cut
\* off, and the list holds one entry of that name.
C4_Witness ==
  /\ call.op = "search"
  /\ Len(call.locals.ranked) < Len(call.locals.fused)
  /\ \E i \in 1..Len(call.ret) :
       \E a, b \in 1..Len(call.locals.ranked) :
         /\ OwnerOf(call.locals.ranked[a][1]).name = call.ret[i].filename
         /\ OwnerOf(call.locals.ranked[b][1]).name = call.ret[i].filename
         /\ OwnerOf(call.locals.ranked[a][1]).id
              # OwnerOf(call.locals.ranked[b][1]).id
         /\ Round4(call.locals.ranked[a][2]) # Round4(call.locals.ranked[b][2])

\* ------------------------------------------------------------------- C5

\* C5 as stated: for every integer top_k the list holds at most top_k
\* entries, and none when top_k = 0.
C5_AtMostTopKAsStated ==
  call.op = "search" =>
    /\ Len(call.ret) <= call.top_k
    /\ call.top_k = 0 => call.ret = << >>

\* C5 as amended: for every top_k >= 0 the list holds at most top_k entries,
\* and none when top_k = 0.
C5_AtMostTopK ==
  (call.op = "search" /\ call.top_k >= 0) =>
    /\ Len(call.ret) <= call.top_k
    /\ call.top_k = 0 => call.ret = << >>

\* top_k = 1 cut a list of two filenames down to one entry.
C5_Witness ==
  /\ call.op = "search"
  /\ call.top_k = 1
  /\ Len(call.ret) = 1
  /\ \E k \in 1..Len(call.locals.ranked) :
       OwnerOf(call.locals.ranked[k][1]).name # call.ret[1].filename

\* ------------------------------------------------------------------- C8

\* A search that computed bm25_top and went on to fuse.
Ranked ==
  /\ call.op = "search"
  /\ SearchReady(Self, call.query)
  /\ call.ext.encode = "ok"

Bm25TopDescending ==
  LET top == call.locals.bm25_top
      sc == call.ext.bm25_scores
  IN
  /\ Len(top) = Min(100, Len(valid_chunk_indices))
  /\ \A a, b \in 1..Len(top) : a # b => top[a] # top[b]
  /\ \A a \in 1..Len(top) : top[a] \in 0..(Len(sc) - 1)
  /\ \A a, b \in 1..Len(top) : a < b => sc[top[a] + 1] >= sc[top[b] + 1]

\* C8 as stated: bm25_top lists the top min(100, #valid) valid chunks by
\* score, descending, and of two chunks with equal score the one at the
\* smaller position of valid_chunk_indices has the smaller rank.
C8_StableTiesAsStated ==
  Ranked =>
    /\ Bm25TopDescending
    /\ \A a, b \in 1..Len(call.locals.bm25_top) :
         LET top == call.locals.bm25_top
             sc == call.ext.bm25_scores
         IN (sc[top[a] + 1] = sc[top[b] + 1] /\ top[a] < top[b]) => a < b

\* C8 as amended: bm25_top lists the top min(100, #valid) valid chunks by
\* score, descending; chunks of equal score come in the order np.argsort
\* left them in, reversed, which is no fixed order.
C8_Descending == Ranked => Bm25TopDescending

\* Two chunks of equal score, the one at the greater position ranked first.
C8_Witness ==
  /\ Ranked
  /\ \E a, b \in 1..Len(call.locals.bm25_top) :
       LET top == call.locals.bm25_top
           sc == call.ext.bm25_scores
       IN a < b /\ sc[top[a] + 1] = sc[top[b] + 1] /\ top[a] > top[b]

\* ------------------------------------------------------------------- C9

\* A snapshot in which the derived structures are those of one rebuild over
\* every chunk of the store (the vector index None when that rebuild could
\* not embed), or in which nothing was ever ingested.
Whole(seen) ==
  IF seen.chunks = 0
  THEN seen.docs = 0 /\ seen.lexical = -1 /\ seen.vectors = -1
       /\ seen.valid = 0 /\ seen.embeddings = -1
  ELSE /\ seen.docs > 0
       /\ seen.lexical = seen.chunks
       /\ seen.valid = seen.chunks
       /\ seen.vectors \in {-1, seen.chunks}
       /\ seen.embeddings = seen.vectors

\* C9 as stated: the turn of the event loop that puts a batch's documents
\* into the store hands the loop on with the lexical index, the vector
\* index or valid_chunk_indices still those of the rebuild before, so that
\* a search request can run on the partly updated index.
C9_TornReadAsStated ==
  [][Len(docs') > Len(docs) => ~Whole(Snapshot')]_vars

\* C9 as amended: no search request runs while a rebuild is in progress.
\* add_documents_batch holds no await, so between any two turns of the event
\* loop, and in every search, docs, chunks and doc_map stand with a lexical
\* index and valid_chunk_indices built over all their chunks, and with a
\* vector index over all of them or, after a failed embedding, None.
C9_NoTornRead ==
  /\ Whole(Snapshot)
  /\ call.op = "search" => Whole(call.seen)

\* A search request ran between two awaits of a background task, on an
\* index that held documents and that the task then added to.
C9_Witness ==
  /\ call.op = "search"
  /\ call.during
  /\ call.seen.docs > 0
  /\ Len(docs) > call.seen.docs

\* ------------------------------------------------------------------ C10

\* C10: the index never holds more than MAX_PDFS documents, whatever the
\* order of the upload requests and of their background tasks.
C10_Limit == Len(docs) <= MAX_PDFS

====
